---------------------------- MODULE Spec2Model ----------------------------
(***************************************************************************)
(* A model of the todo list of src/main.js and src/unnamed/part_000: the   *)
(* browser's localStorage (keys `todos` and `uniqueId`, both holding       *)
(* text), the list items of each tab's DOM, and the handlers (startup      *)
(* block, keydown listener, toggle click, delete click), each cut into its *)
(* storage reads, storage writes and DOM updates.                          *)
(*                                                                         *)
(* Text (a storage value, an attribute value) is a sequence of lexemes,    *)
(* each a string: "[", "{", a digit, a quote mark, a word.                 *)
(***************************************************************************)
EXTENDS Integers, Sequences, FiniteSets

\* The submit handler is not offered once the counter has reached MaxId.
MaxId == 3

\* The same, in the specifications with two tabs.
MaxIdTabs == 2

\* The same, where the steps of two tabs' submits interleave.
MaxIdRace == 1

\* The key code the keydown listener waits for.
EnterKey == 13

\* The two source files; a tab runs the one the page was deployed with.
Files == {"main.js", "part_000"}

\* The texts a user types into the submit field.
Tasks == {"a", "b"}

\* The browser tabs that share one localStorage.
Tabs == {1, 2}
OneTab == {1}
TwoTabs == {1, 2}

VARIABLES
  impl,     \* the source file the page runs
  storage,  \* localStorage: for each key, null or its text
  dom,      \* per tab: the list items and the submit field's value
  pc,       \* per tab: "closed", "idle", "crashed", or the step a handler is at
  local,    \* per tab: the running handler's local variables
  issued,   \* history: the ids of the records addToStore has persisted, in order
  last,     \* history: the handler last started, its tab and argument, whether it threw
  pre,      \* history: storage and that tab's list items when that handler started
  steps     \* history, per tab: the storage accesses and DOM updates of its handler, in order

vars == <<impl, storage, dom, pc, local, issued, last, pre, steps>>

(***************************************************************************)
(* Numbers and their decimal text.                                         *)
(***************************************************************************)
DigitChars == <<"0", "1", "2", "3", "4", "5", "6", "7", "8", "9">>

IsDigit(c) == \E d \in 1..10 : DigitChars[d] = c

DigitVal(c) == (CHOOSE d \in 1..10 : DigitChars[d] = c) - 1

RECURSIVE NumberToString(_)
\* String(n) of a non-negative integer: its decimal digits.
NumberToString(n) ==
  IF n < 10 THEN <<DigitChars[n + 1]>>
  ELSE NumberToString(n \div 10) \o <<DigitChars[(n % 10) + 1]>>

RECURSIVE DigitRun(_, _, _)
\* The value of the digits of txt from position i on, and the first position after them.
DigitRun(txt, i, acc) ==
  IF i <= Len(txt) /\ IsDigit(txt[i])
  THEN DigitRun(txt, i + 1, acc * 10 + DigitVal(txt[i]))
  ELSE [val |-> acc, next |-> i]

AllDigits(txt) == txt # <<>> /\ \A i \in 1..Len(txt) : IsDigit(txt[i])

(***************************************************************************)
(* localStorage: for each of the two keys, null (the key is absent) or its *)
(* text.                                                                   *)
(***************************************************************************)
Null == [null |-> TRUE, text |-> <<>>]

Str(txt) == [null |-> FALSE, text |-> txt]

EmptyStorage == [todos |-> Null, uniqueId |-> Null]

\* getItem: null for an absent key, else the key's text.
getItem(s, k) == s[k]

\* setItem: the key holds the text afterwards, the other key is kept.
setItem(s, k, txt) == [s EXCEPT ![k] = Str(txt)]

\* A mutant of Falsy: every load takes the branch of the first visit.
Falsy_always(item) == TRUE

\* !localStorage.getItem(key): true of null and of the empty string.
Falsy(item) == item.null \/ item.text = <<>>

\* Number(item): null and "" give 0, decimal digits their value. Other text
\* (NaN in JavaScript) is never stored under `uniqueId` in this model.
Number(item) ==
  CASE item.null -> 0
    [] item.text = <<>> -> 0
    [] AllDigits(item.text) -> DigitRun(item.text, 1, 0).val

(***************************************************************************)
(* JSON.stringify and JSON.parse of the todos array.                       *)
(***************************************************************************)
Quote(s) == <<"\"", s, "\"">>

BoolToString(b) == IF b THEN <<"true">> ELSE <<"false">>

\* JSON.stringify of one record {id, task, completed}, keys in creation order.
StringifyTodo(todo) ==
  <<"{">> \o Quote("id") \o <<":">> \o NumberToString(todo.id) \o <<",">>
          \o Quote("task") \o <<":">> \o Quote(todo.task) \o <<",">>
          \o Quote("completed") \o <<":">> \o BoolToString(todo.completed)
          \o <<"}">>

RECURSIVE StringifyElements(_)
StringifyElements(todos) ==
  IF todos = <<>> THEN <<>>
  ELSE IF Len(todos) = 1 THEN StringifyTodo(todos[1])
  ELSE StringifyTodo(todos[1]) \o <<",">> \o StringifyElements(Tail(todos))

\* JSON.stringify of an array of records.
JSONstringify(todos) == <<"[">> \o StringifyElements(todos) \o <<"]">>

NoTodo == [id |-> 0, task |-> "", completed |-> FALSE]

Tok(txt, i) == IF i >= 1 /\ i <= Len(txt) THEN txt[i] ELSE "<eof>"

\* Whether txt holds the lexemes toks from position i on.
Holds(txt, i, toks) == \A j \in 1..Len(toks) : Tok(txt, i + j - 1) = toks[j]

\* One record at position i: {"id":<number>,"task":<string>,"completed":<boolean>}.
ParseTodo(txt, i) ==
  LET idAt    == i + 5
      num     == DigitRun(txt, idAt, 0)
      numOk   == /\ num.next > idAt
                 /\ (Tok(txt, idAt) = "0" => num.next = idAt + 1)
      taskAt  == num.next + 6
      doneAt  == taskAt + 7
      headOk  == /\ Holds(txt, i, <<"{">> \o Quote("id") \o <<":">>)
                 /\ numOk
                 /\ Holds(txt, num.next, <<",">> \o Quote("task") \o <<":", "\"">>)
                 /\ Tok(txt, taskAt) \notin {"\"", "<eof>"}
                 /\ Holds(txt, taskAt + 1, <<"\"", ",">> \o Quote("completed") \o <<":">>)
                 /\ Tok(txt, doneAt) \in {"true", "false"}
                 /\ Tok(txt, doneAt + 1) = "}"
  IN IF headOk
     THEN [ok |-> TRUE, next |-> doneAt + 2,
           val |-> [id |-> num.val, task |-> txt[taskAt],
                    completed |-> (txt[doneAt] = "true")]]
     ELSE [ok |-> FALSE, next |-> i, val |-> NoTodo]

RECURSIVE ParseElements(_, _, _)
\* The records after "[" up to the closing "]".
ParseElements(txt, i, acc) ==
  IF acc = <<>> /\ Tok(txt, i) = "]" THEN [ok |-> TRUE, next |-> i + 1, val |-> acc]
  ELSE LET r == ParseTodo(txt, i)
       IN IF ~r.ok THEN [ok |-> FALSE, next |-> i, val |-> <<>>]
          ELSE IF Tok(txt, r.next) = "," /\ Tok(txt, r.next + 1) # "]"
               THEN ParseElements(txt, r.next + 1, Append(acc, r.val))
          ELSE IF Tok(txt, r.next) = "]"
               THEN [ok |-> TRUE, next |-> r.next + 1, val |-> Append(acc, r.val)]
          ELSE [ok |-> FALSE, next |-> i, val |-> <<>>]

\* JSON.parse of the text of this model: an array of records, null, an empty
\* object or a number parse to a value of that kind; any other text throws
\* SyntaxError.
JSONparseText(txt) ==
  IF txt = <<"null">> THEN [kind |-> "null", items |-> <<>>]
  ELSE IF txt = <<"{", "}">> THEN [kind |-> "object", items |-> <<>>]
  ELSE IF AllDigits(txt) /\ (txt[1] = "0" => Len(txt) = 1)
       THEN [kind |-> "number", items |-> <<>>]
  ELSE IF Tok(txt, 1) = "["
       THEN LET r == ParseElements(txt, 2, <<>>)
            IN IF r.ok /\ r.next = Len(txt) + 1
               THEN [kind |-> "array", items |-> r.val]
               ELSE [kind |-> "SyntaxError", items |-> <<>>]
  ELSE [kind |-> "SyntaxError", items |-> <<>>]

\* JSON.parse(getItem(..)): a null argument is converted to the text null first.
JSONparse(item) == JSONparseText(IF item.null THEN <<"null">> ELSE item.text)

(***************************************************************************)
(* The DOM of a tab: the <li> elements of the list in document order. Each *)
(* carries its data-id attribute (text), the task text of its <span>, the  *)
(* span's strike class, the checked attribute of each checkbox child (in   *)
(* child order) and the number of its Delete buttons. The span's id        *)
(* attribute `todo-<id>` is built from the same id as data-id.             *)
(***************************************************************************)
\* createListItem: the <li> and its <span>, no controls yet.
createListItem(id, task, completed) ==
  [dataId |-> NumberToString(id), text |-> task, strike |-> completed,
   toggles |-> <<>>, deletes |-> 0]

\* document.querySelector(`li[data-id="${id}"]`) and
\* document.getElementById(`todo-${id}`): the position of the first <li>
\* built for that id, 0 for null.
querySelector(items, id) ==
  IF \E p \in 1..Len(items) : items[p].dataId = NumberToString(id)
  THEN CHOOSE p \in 1..Len(items) :
         /\ items[p].dataId = NumberToString(id)
         /\ \A q \in 1..(p - 1) : items[q].dataId # NumberToString(id)
  ELSE 0

\* addToggleButton: a checkbox becomes the first child of the first <li> with
\* that data-id, checked when completed.
addToggleButton(items, id, completed) ==
  LET p == querySelector(items, id)
  IN [items EXCEPT ![p].toggles = <<completed>> \o @]

\* addDeleteButton: a Delete button becomes the last child of the <li> el.
addDeleteButton(items, el) == [items EXCEPT ![el].deletes = @ + 1]

\* A mutant of displayExistingListItem: the checkbox is added without the
\* record's completed flag.
displayExistingListItem_unchecked(items, item) ==
  LET shown == Append(items, createListItem(item.id, item.task, item.completed))
  IN addDeleteButton(addToggleButton(shown, item.id, FALSE), Len(shown))

\* displayExistingListItem: the <li> is appended to the list and gets its controls.
displayExistingListItem(items, item) ==
  LET shown == Append(items, createListItem(item.id, item.task, item.completed))
  IN addDeleteButton(addToggleButton(shown, item.id, item.completed), Len(shown))

RECURSIVE displayAll(_, _)
\* todos.forEach(todo => displayExistingListItem(todo))
displayAll(items, todos) ==
  IF todos = <<>> THEN items
  ELSE displayAll(displayExistingListItem(items, todos[1]), Tail(todos))

\* addNewListItem's DOM part: a <li> without the strike class, an unchecked
\* checkbox, a Delete button.
appendNewListItem(items, id, task) ==
  LET shown == Append(items, createListItem(id, task, FALSE))
  IN addDeleteButton(addToggleButton(shown, id, FALSE), Len(shown))

\* A mutant of toggleView: the span's class is left alone.
toggleView_noStrike(items, p, k, id, isChecked) ==
  [items EXCEPT ![p].toggles[k] = ~isChecked]

\* toggleEventHandler's DOM part: the clicked checkbox (child k of <li> p)
\* loses or gains `checked`, and the span `todo-<id>` loses or gains `strike`.
toggleView(items, p, k, id, isChecked) ==
  LET span    == querySelector(items, id)
      flipped == [items EXCEPT ![p].toggles[k] = ~isChecked]
  IN [flipped EXCEPT ![span].strike = ~isChecked]

\* A mutant of removeChild: the last <li> is removed, whichever was found.
removeChild_last(items, p) == SubSeq(items, 1, Len(items) - 1)

\* removeChild: the list without its <li> at position p.
removeChild(items, p) ==
  [i \in 1..(Len(items) - 1) |-> IF i < p THEN items[i] ELSE items[i + 1]]

\* The id a control's listener was registered with: the number whose text is
\* the data-id of the <li> the control was inserted into.
ListenerId(li) == DigitRun(li.dataId, 1, 0).val

(***************************************************************************)
(* The store's side of the handlers.                                       *)
(***************************************************************************)
\* A mutant of toggleCompleted: the flag is set, not flipped.
toggleCompleted_set(todos, id) ==
  [i \in 1..Len(todos) |->
     IF todos[i].id = id THEN [todos[i] EXCEPT !.completed = TRUE] ELSE todos[i]]

\* todos.map(todo => { if (todo.id === id) todo.completed = !todo.completed })
toggleCompleted(todos, id) ==
  [i \in 1..Len(todos) |->
     IF todos[i].id = id THEN [todos[i] EXCEPT !.completed = ~@] ELSE todos[i]]

\* A mutant of filterOut: the test is inverted, the record with the id is the
\* one kept.
filterOut_kept(todos, id) == SelectSeq(todos, LAMBDA todo : todo.id = id)

\* todos.filter(todo => todo.id !== id)
filterOut(todos, id) == SelectSeq(todos, LAMBDA todo : todo.id # id)

\* A mutant of pushTodo: the record is put first (unshift).
pushTodo_front(todos, id, task) ==
  <<[id |-> id, task |-> task, completed |-> FALSE]>> \o todos

\* todos.push({id: uniqueId, task, completed: false})
pushTodo(todos, id, task) ==
  Append(todos, [id |-> id, task |-> task, completed |-> FALSE])

\* incrementUniqueId of part_000: Number(getItem('uniqueId')) + 1.
incrementPart(item) == Number(item) + 1

\* A mutant of incrementMain: the value of the expression uniqueId++, the
\* number before the increment, is what is stored.
incrementMain_postfix(item) == Number(item)

\* incrementUniqueId of main.js: uniqueId++ on the stored text converts it to a
\* number and adds one.
incrementMain(item) == Number(item) + 1

\* A mutant of incrementedUniqueId: the counter is written back as read.
incrementedUniqueId_stale(file, item) == Number(item)

incrementedUniqueId(file, item) ==
  IF file = "main.js" THEN incrementMain(item) ELSE incrementPart(item)

(***************************************************************************)
(* State.                                                                  *)
(***************************************************************************)
NoLocal == [id |-> 0, value |-> "", p |-> 0, k |-> 0, todos |-> <<>>,
            n |-> 0, isChecked |-> FALSE]

NoPage == [items |-> <<>>, input |-> ""]

NoHandler == [op |-> "none", tab |-> 0, id |-> 0, value |-> "", threw |-> FALSE]

InitWith(s) ==
  /\ impl \in Files
  /\ storage = s
  /\ dom = [t \in Tabs |-> NoPage]
  /\ pc = [t \in Tabs |-> "closed"]
  /\ local = [t \in Tabs |-> NoLocal]
  /\ issued = <<>>
  /\ last = NoHandler
  /\ pre = [storage |-> s, items |-> <<>>, chain |-> <<>>]
  /\ steps = [t \in Tabs |-> <<>>]

\* The first visit: nothing has been persisted.
Init == InitWith(EmptyStorage)

\* Persisted `todos` values the program did not write: the empty string, a
\* truncated array, a JSON object, the JSON text null.
CorruptTodos ==
  {Str(<<>>), Str(<<"[", "{">>), Str(<<"{", "}">>), Str(<<"null">>)}

\* A visit that finds `todos` absent or corrupt, with or without a counter.
InitCorrupt ==
  \E td \in {Null} \cup CorruptTodos, uid \in {Null, Str(NumberToString(2))} :
    InitWith([todos |-> td, uniqueId |-> uid])

\* A handler starts in tab t: what it is and what it finds is recorded (id is
\* the id a toggle or delete listener was registered with, or the key code of
\* a key event). A
\* toggle that directly follows a toggle of the same id also keeps the storage
\* the first of the two found.
Begin(t, op, id, value, threw) ==
  /\ last' = [op |-> op, tab |-> t, id |-> id, value |-> value, threw |-> threw]
  /\ pre' = [storage |-> storage, items |-> dom[t].items,
             chain |-> IF /\ op = "toggle" /\ last.op = "toggle" /\ last.tab = t
                          /\ last.id = id /\ ~last.threw
                       THEN <<pre.storage>> ELSE <<>>]

\* An uncaught exception ends the handler; the page stays as it is.
Throw(t, to) ==
  /\ pc' = [pc EXCEPT ![t] = to]
  /\ local' = [local EXCEPT ![t] = NoLocal]
  /\ last' = [last EXCEPT !.threw = TRUE]

Goto(t, to) == pc' = [pc EXCEPT ![t] = to]

\* No handler is running in a tab.
Quiet(t) == pc[t] \in {"closed", "idle", "crashed"}

\* A handler starts only while no handler runs in the tabs `others` (none, where
\* the tabs' steps interleave freely).
Alone(others) == \A u \in others : Quiet(u)

\* A submit is running in a tab.
InSubmit(t) ==
  pc[t] \in {"addNewListItem_dom", "addToStore_readId", "addToStore_readTodos",
             "addToStore_write", "incrementUniqueId_read", "incrementUniqueId_write"}

\* A key event is handled only while the tabs `submitters` run no handler but
\* a submit.
AloneButSubmits(submitters) == \A u \in submitters : Quiet(u) \/ InSubmit(u)

\* What a handler does to localStorage and to the document, in the order of
\* the statements: a getItem, a setItem, a change of the list or of the field.
Read(key) == [kind |-> "read", key |-> key]

Write(key) == [kind |-> "write", key |-> key]

Update(part) == [kind |-> "dom", key |-> part]

\* The steps of the handler that starts in tab t are recorded from here on;
\* the records of handlers that have ended are dropped.
StartLog(t, entries) ==
  steps' = [u \in Tabs |-> IF u = t THEN entries
                           ELSE IF Quiet(u) THEN <<>> ELSE steps[u]]

Log(t, entries) == steps' = [steps EXCEPT ![t] = @ \o entries]

(***************************************************************************)
(* The startup block (lines 15-21), run on every page load.                *)
(***************************************************************************)
\* The page is (re)loaded: the old document is gone, and line 15 reads `todos`.
startup_check(t, others) ==
  /\ pc[t] \in {"closed", "idle", "crashed"}
  /\ Alone(others)
  /\ dom' = [dom EXCEPT ![t] = NoPage]
  /\ Goto(t, IF Falsy(getItem(storage, "todos")) THEN "startup_setUniqueId"
             ELSE "startup_display")
  /\ Begin(t, "load", 0, "", FALSE)
  /\ StartLog(t, <<Read("todos")>>)
  /\ UNCHANGED <<impl, storage, local, issued>>

\* Line 16: setItem('uniqueId', 0).
startup_setUniqueId(t) ==
  /\ pc[t] = "startup_setUniqueId"
  /\ storage' = setItem(storage, "uniqueId", NumberToString(0))
  /\ Goto(t, "startup_setTodos")
  /\ Log(t, <<Write("uniqueId")>>)
  /\ UNCHANGED <<impl, dom, local, issued, last, pre>>

\* Line 17: setItem('todos', JSON.stringify([])); the listener of lines 27-32
\* is registered and the page is ready.
startup_setTodos(t) ==
  /\ pc[t] = "startup_setTodos"
  /\ storage' = setItem(storage, "todos", JSONstringify(<<>>))
  /\ Goto(t, "idle")
  /\ Log(t, <<Write("todos")>>)
  /\ UNCHANGED <<impl, dom, local, issued, last, pre>>

\* Lines 19-20: the stored text is parsed and every record displayed. A
\* SyntaxError of JSON.parse, or the TypeError of forEach on a value that is
\* no array, ends the script before any listener is registered.
startup_display(t) ==
  /\ pc[t] = "startup_display"
  /\ LET todos == JSONparse(getItem(storage, "todos"))
     IN IF todos.kind = "array"
        THEN /\ dom' = [dom EXCEPT ![t].items = displayAll(<<>>, todos.items)]
             /\ Goto(t, "idle")
             /\ Log(t, <<Read("todos")>> \o
                        [i \in 1..Len(todos.items) |-> Update("list")])
             /\ UNCHANGED <<local, last>>
        ELSE /\ Throw(t, "crashed")
             /\ Log(t, <<Read("todos")>>)
             /\ UNCHANGED dom
  /\ UNCHANGED <<impl, storage, issued, pre>>

(***************************************************************************)
(* The keydown listener (lines 27-32), addNewListItem, addToStore and      *)
(* incrementUniqueId.                                                      *)
(***************************************************************************)
\* A mutant of keydownSubmits: any key submits a field that is not empty.
keydownSubmits_anyKey(keyCode, value) == value # ""

\* Line 28: e.keyCode == 13 && e.target.value (the empty string is falsy).
keydownSubmits(keyCode, value) == keyCode = EnterKey /\ value # ""

\* Line 28, and line 81 when the key is Enter and the field is not empty.
keydown(t, keyCode, value, cap, others, submitters) ==
  /\ pc[t] = "idle"
  /\ Alone(others)
  /\ AloneButSubmits(submitters)
  /\ IF keydownSubmits(keyCode, value)
     THEN /\ Number(getItem(storage, "uniqueId")) < cap
          /\ local' = [local EXCEPT ![t] =
               [NoLocal EXCEPT !.id = Number(getItem(storage, "uniqueId")),
                               !.value = value]]
          /\ Goto(t, "addNewListItem_dom")
          /\ Begin(t, "submit", keyCode, value, FALSE)
          /\ StartLog(t, <<Read("uniqueId")>>)
     ELSE /\ Begin(t, "keydown", keyCode, value, FALSE)
          /\ StartLog(t, <<>>)
          /\ UNCHANGED <<local, pc>>
  /\ dom' = [dom EXCEPT ![t].input = value]
  /\ UNCHANGED <<impl, storage, issued>>

\* Lines 82-87: the new <li> with its controls.
addNewListItem_dom(t) ==
  /\ pc[t] = "addNewListItem_dom"
  /\ dom' = [dom EXCEPT ![t].items = appendNewListItem(@, local[t].id, local[t].value)]
  /\ Goto(t, "addToStore_readId")
  /\ Log(t, <<Update("list")>>)
  /\ UNCHANGED <<impl, storage, local, issued, last, pre>>

\* Line 166: the counter is read again.
addToStore_readId(t) ==
  /\ pc[t] = "addToStore_readId"
  /\ local' = [local EXCEPT ![t].n = Number(getItem(storage, "uniqueId"))]
  /\ Goto(t, "addToStore_readTodos")
  /\ Log(t, <<Read("uniqueId")>>)
  /\ UNCHANGED <<impl, storage, dom, issued, last, pre>>

\* A mutant of addToStore_readTodos: the array is not read from localStorage
\* but rebuilt from the items the tab shows, the new one included.
addToStore_readTodos_fromView(t) ==
  /\ pc[t] = "addToStore_readTodos"
  /\ local' = [local EXCEPT ![t].todos =
                 [i \in 1..Len(dom[t].items) |->
                    [id |-> ListenerId(dom[t].items[i]),
                     task |-> dom[t].items[i].text,
                     completed |-> dom[t].items[i].strike]]]
  /\ Goto(t, "addToStore_write")
  /\ UNCHANGED <<impl, storage, dom, issued, last, pre, steps>>

\* Lines 167-170: the array is read and the new record pushed. JSON.parse or
\* push throws when the stored text is no array.
addToStore_readTodos(t) ==
  /\ pc[t] = "addToStore_readTodos"
  /\ LET todos == JSONparse(getItem(storage, "todos"))
     IN IF todos.kind = "array"
        THEN /\ local' = [local EXCEPT ![t].todos =
                            pushTodo(todos.items, local[t].n, local[t].value)]
             /\ Goto(t, "addToStore_write")
             /\ UNCHANGED last
        ELSE Throw(t, "idle")
  /\ Log(t, <<Read("todos")>>)
  /\ UNCHANGED <<impl, storage, dom, issued, pre>>

\* Line 172: the array is written back.
addToStore_write(t) ==
  /\ pc[t] = "addToStore_write"
  /\ storage' = setItem(storage, "todos", JSONstringify(local[t].todos))
  /\ issued' = Append(issued, local[t].n)
  /\ Goto(t, "incrementUniqueId_read")
  /\ Log(t, <<Write("todos")>>)
  /\ UNCHANGED <<impl, dom, local, last, pre>>

\* A mutant of incrementUniqueId_read: the counter is not read again, one is
\* added to the value addToStore has read.
incrementUniqueId_read_cached(t) ==
  /\ pc[t] = "incrementUniqueId_read"
  /\ local' = [local EXCEPT ![t].n = @ + 1]
  /\ Goto(t, "incrementUniqueId_write")
  /\ UNCHANGED <<impl, storage, dom, issued, last, pre, steps>>

\* Line 182 (main.js: 154-155): the counter is read and one added.
incrementUniqueId_read(t) ==
  /\ pc[t] = "incrementUniqueId_read"
  /\ local' = [local EXCEPT ![t].n = incrementedUniqueId(impl, getItem(storage, "uniqueId"))]
  /\ Goto(t, "incrementUniqueId_write")
  /\ Log(t, <<Read("uniqueId")>>)
  /\ UNCHANGED <<impl, storage, dom, issued, last, pre>>

\* Line 183: the counter is written; line 30 then empties the field.
incrementUniqueId_write(t) ==
  /\ pc[t] = "incrementUniqueId_write"
  /\ storage' = setItem(storage, "uniqueId", NumberToString(local[t].n))
  /\ dom' = [dom EXCEPT ![t].input = ""]
  /\ local' = [local EXCEPT ![t] = NoLocal]
  /\ Goto(t, "idle")
  /\ Log(t, <<Write("uniqueId"), Update("input")>>)
  /\ UNCHANGED <<impl, issued, last, pre>>

(***************************************************************************)
(* toggleEventHandler. part_000 reads, writes, then updates the DOM        *)
(* (lines 118-140); main.js reads, updates the DOM, then writes (lines     *)
(* 110-131).                                                               *)
(***************************************************************************)
\* A mutant of toggleEventHandler_next: main.js too writes before it updates
\* the DOM.
toggleEventHandler_next_writeFirst(file, at) ==
  CASE at = "toggleEventHandler_read"  -> "toggleEventHandler_write"
    [] at = "toggleEventHandler_write" -> "toggleEventHandler_dom"
    [] at = "toggleEventHandler_dom"   -> "idle"

\* The order of the handler's statements: where it goes after the step `at`.
toggleEventHandler_next(file, at) ==
  IF file = "main.js"
  THEN CASE at = "toggleEventHandler_read"  -> "toggleEventHandler_dom"
         [] at = "toggleEventHandler_dom"   -> "toggleEventHandler_write"
         [] at = "toggleEventHandler_write" -> "idle"
  ELSE CASE at = "toggleEventHandler_read"  -> "toggleEventHandler_write"
         [] at = "toggleEventHandler_write" -> "toggleEventHandler_dom"
         [] at = "toggleEventHandler_dom"   -> "idle"

\* A click on checkbox k of <li> p. Lines 119-126 (main.js: 111-120): the
\* array is read and the record's flag flipped; main.js has looked at the
\* checkbox before. JSON.parse or map throws when the text is no array.
toggleEventHandler_read(t, p, k, others) ==
  /\ pc[t] = "idle"
  /\ Alone(others)
  /\ p \in 1..Len(dom[t].items)
  /\ k \in 1..Len(dom[t].items[p].toggles)
  /\ LET id    == ListenerId(dom[t].items[p])
         todos == JSONparse(getItem(storage, "todos"))
     IN /\ Begin(t, "toggle", id, "", todos.kind # "array")
        /\ IF todos.kind = "array"
           THEN /\ local' = [local EXCEPT ![t] =
                     [NoLocal EXCEPT !.id = id, !.p = p, !.k = k,
                                     !.todos = toggleCompleted(todos.items, id),
                                     !.isChecked = IF impl = "main.js"
                                                   THEN dom[t].items[p].toggles[k]
                                                   ELSE FALSE]]
                /\ Goto(t, toggleEventHandler_next(impl, "toggleEventHandler_read"))
           ELSE /\ pc' = pc
                /\ local' = local
  /\ StartLog(t, <<Read("todos")>>)
  /\ UNCHANGED <<impl, storage, dom, issued>>

\* Line 128 (main.js: 130): the array is written back.
toggleEventHandler_write(t) ==
  /\ pc[t] = "toggleEventHandler_write"
  /\ storage' = setItem(storage, "todos", JSONstringify(local[t].todos))
  /\ Goto(t, toggleEventHandler_next(impl, "toggleEventHandler_write"))
  /\ local' = IF toggleEventHandler_next(impl, "toggleEventHandler_write") = "idle"
              THEN [local EXCEPT ![t] = NoLocal] ELSE local
  /\ Log(t, <<Write("todos")>>)
  /\ UNCHANGED <<impl, dom, issued, last, pre>>

\* Lines 130-139 (main.js: 122-128): the checkbox and the span are updated from
\* the checkbox's own attribute.
toggleEventHandler_dom(t) ==
  /\ pc[t] = "toggleEventHandler_dom"
  /\ LET isChecked == IF impl = "main.js" THEN local[t].isChecked
                      ELSE dom[t].items[local[t].p].toggles[local[t].k]
     IN dom' = [dom EXCEPT ![t].items =
                  toggleView(@, local[t].p, local[t].k, local[t].id, isChecked)]
  /\ Goto(t, toggleEventHandler_next(impl, "toggleEventHandler_dom"))
  /\ local' = IF toggleEventHandler_next(impl, "toggleEventHandler_dom") = "idle"
              THEN [local EXCEPT ![t] = NoLocal] ELSE local
  /\ Log(t, <<Update("list")>>)
  /\ UNCHANGED <<impl, storage, issued, last, pre>>

(***************************************************************************)
(* removeElement (lines 191-198).                                          *)
(***************************************************************************)
\* A click on a Delete button of <li> p. Lines 192-193: the array is read and
\* the record filtered out. JSON.parse or filter throws when the text is no
\* array.
removeElement_read(t, p, others) ==
  /\ pc[t] = "idle"
  /\ Alone(others)
  /\ p \in 1..Len(dom[t].items)
  /\ dom[t].items[p].deletes > 0
  /\ LET id    == ListenerId(dom[t].items[p])
         todos == JSONparse(getItem(storage, "todos"))
     IN /\ Begin(t, "delete", id, "", todos.kind # "array")
        /\ IF todos.kind = "array"
           THEN /\ local' = [local EXCEPT ![t] =
                     [NoLocal EXCEPT !.id = id, !.p = p,
                                     !.todos = filterOut(todos.items, id)]]
                /\ Goto(t, "removeElement_write")
           ELSE /\ pc' = pc
                /\ local' = local
  /\ StartLog(t, <<Read("todos")>>)
  /\ UNCHANGED <<impl, storage, dom, issued>>

\* A mutant of removeElement_write: the counter is written too, set to the
\* number of records left, so that the ids of removed records are handed out again.
removeElement_write_reclaim(t) ==
  /\ pc[t] = "removeElement_write"
  /\ storage' = setItem(setItem(storage, "todos", JSONstringify(local[t].todos)),
                        "uniqueId", NumberToString(Len(local[t].todos)))
  /\ Goto(t, "removeElement_dom")
  /\ Log(t, <<Write("todos"), Write("uniqueId")>>)
  /\ UNCHANGED <<impl, dom, local, issued, last, pre>>

\* Line 194: the array is written back.
removeElement_write(t) ==
  /\ pc[t] = "removeElement_write"
  /\ storage' = setItem(storage, "todos", JSONstringify(local[t].todos))
  /\ Goto(t, "removeElement_dom")
  /\ Log(t, <<Write("todos")>>)
  /\ UNCHANGED <<impl, dom, local, issued, last, pre>>

\* Lines 196-197: the first <li> with that data-id leaves the list.
removeElement_dom(t) ==
  /\ pc[t] = "removeElement_dom"
  /\ LET elem == querySelector(dom[t].items, local[t].id)
     IN dom' = [dom EXCEPT ![t].items = removeChild(@, elem)]
  /\ local' = [local EXCEPT ![t] = NoLocal]
  /\ Goto(t, "idle")
  /\ Log(t, <<Update("list")>>)
  /\ UNCHANGED <<impl, storage, issued, last, pre>>

(***************************************************************************)
(* Specifications.                                                         *)
(***************************************************************************)
\* The keys a user presses (Enter, another key) and what the field holds then.
KeyCodes == {EnterKey, 65}

Values == {""} \cup Tasks

\* The same, in the specifications with two tabs.
ValuesTabs == {"", "a"}

\* The key events of a page: the key pressed and what the field holds then.
Events == KeyCodes \X Values

EventsTabs == KeyCodes \X ValuesTabs

\* The same, where the steps of two tabs interleave: Enter on a filled field.
EventsRace == {<<EnterKey, "a">>}

\* One step of tab t: a page load, an event, or the next step of its handler.
\* A load or a click is handled only while the tabs `others` run no handler, a
\* key event only while the tabs `keyOthers` run none and the tabs `submitters`
\* none but a submit.
TabStep(t, cap, events, others, keyOthers, submitters) ==
  \/ startup_check(t, others)
  \/ startup_setUniqueId(t)
  \/ startup_setTodos(t)
  \/ startup_display(t)
  \/ \E e \in events : keydown(t, e[1], e[2], cap, keyOthers, submitters)
  \/ addNewListItem_dom(t)
  \/ addToStore_readId(t)
  \/ addToStore_readTodos(t)
  \/ addToStore_write(t)
  \/ incrementUniqueId_read(t)
  \/ incrementUniqueId_write(t)
  \/ \E p \in 1..Len(dom[t].items), k \in 1..2 : toggleEventHandler_read(t, p, k, others)
  \/ toggleEventHandler_write(t)
  \/ toggleEventHandler_dom(t)
  \/ \E p \in 1..Len(dom[t].items) : removeElement_read(t, p, others)
  \/ removeElement_write(t)
  \/ removeElement_dom(t)

\* One tab.
Next == \E t \in OneTab : TabStep(t, MaxId, Events, {}, {}, {})

Spec == Init /\ [][Next]_vars

\* One tab, on a first visit that finds `todos` absent or corrupt.
SpecCorrupt == InitCorrupt /\ [][Next]_vars

\* Two tabs on one localStorage, each handler running to its end before
\* another tab's handler starts.
NextTabs ==
  \E t \in TwoTabs : TabStep(t, MaxIdTabs, EventsTabs, TwoTabs \ {t}, TwoTabs \ {t}, {})

SpecTabs == Init /\ [][NextTabs]_vars

\* Two tabs on one localStorage, where a key event of one tab is handled while
\* a submit of the other is between two of its steps (each getItem, each
\* setItem, each DOM update is a step): the steps of two submits interleave
\* freely. A load, a toggle and a delete run while the other tab is quiet.
NextRace ==
  \E t \in TwoTabs :
    TabStep(t, MaxIdRace, EventsRace, TwoTabs \ {t}, {}, TwoTabs \ {t})

SpecRace == Init /\ [][NextRace]_vars

(***************************************************************************)
(* What the claims read off a state.                                       *)
(***************************************************************************)
\* The persisted task sequence: JSON.parse(getItem('todos')).
Todos(s) == JSONparse(getItem(s, "todos")).items

\* The persisted counter: Number(getItem('uniqueId')).
Counter(s) == Number(getItem(s, "uniqueId"))

\* The data-id values of a list's items, in document order.
DomIds(items) == [i \in 1..Len(items) |-> items[i].dataId]

\* The ids of the persisted records, as the text data-id holds them.
StoreIds(s) ==
  LET todos == Todos(s)
  IN [i \in 1..Len(todos) |-> NumberToString(todos[i].id)]

\* A sequence holds one value twice.
HasDuplicate(seq) == \E i, j \in 1..Len(seq) : i < j /\ seq[i] = seq[j]

\* The handler last started has run to its end without throwing.
Done(op) == last.op = op /\ pc[last.tab] = "idle" /\ ~last.threw

\* seq without its element at position i.
Without(seq, i) ==
  [j \in 1..(Len(seq) - 1) |-> IF j < i THEN seq[j] ELSE seq[j + 1]]

(***************************************************************************)
(* The claims, one tab (Spec).                                             *)
(***************************************************************************)
\* C1: the ids of the records append has created, in creation order, are
\* strictly increasing, so each differs from every id created before it, the
\* ids of deleted records included.
C1_IdsStrictlyIncreasing ==
  \A i, j \in 1..Len(issued) : i < j => issued[i] < issued[j]

\* C1's case: a third record is created after the first two were deleted.
C1_Witness ==
  /\ Done("submit")
  /\ Len(issued) = 3
  /\ Len(Todos(pre.storage)) = 0
  /\ Len(Todos(storage)) = 1

\* C2: once a handler has finished, the data-id values of the DOM's list items
\* are the ids of the persisted records: the same ids, each once, in the same
\* order.
C2_DomMatchesStore ==
  \A t \in OneTab :
    pc[t] = "idle" =>
      /\ DomIds(dom[t].items) = StoreIds(storage)
      /\ \A i, j \in 1..Len(dom[t].items) :
           i # j => dom[t].items[i].dataId # dom[t].items[j].dataId

\* C2's case: the first of three items was deleted, two remain.
C2_Witness ==
  /\ Done("delete")
  /\ last.id = 0
  /\ DomIds(dom[1].items) = <<NumberToString(1), NumberToString(2)>>

\* C3: once a handler has finished, every item shown has one checkbox, and the
\* checkbox is checked iff the text has the strike class iff the persisted
\* record with the item's id is completed.
C3_CheckedStrikeCompleted ==
  \A t \in OneTab :
    pc[t] = "idle" =>
      LET todos == Todos(storage)
      IN \A i \in 1..Len(dom[t].items) :
           LET li == dom[t].items[i]
               id == ListenerId(li)
           IN /\ Len(li.toggles) = 1
              /\ \E j \in 1..Len(todos) : todos[j].id = id
              /\ \A j \in 1..Len(todos) :
                   todos[j].id = id =>
                     /\ li.toggles[1] = todos[j].completed
                     /\ li.strike = todos[j].completed

\* C3's case: after a toggle, a completed item is shown beside an active one.
C3_Witness ==
  /\ Done("toggle")
  /\ \E i, j \in 1..Len(dom[1].items) :
       /\ dom[1].items[i].strike /\ dom[1].items[i].toggles = <<TRUE>>
       /\ ~dom[1].items[j].strike /\ dom[1].items[j].toggles = <<FALSE>>

\* C4: a page reload shows the list the page showed just before it: the same
\* items in the same order with the same text, checked attribute and strike
\* class.
C4_ReloadKeepsView ==
  \A t \in OneTab :
    (last.op = "load" /\ last.tab = t /\ pc[t] \in {"idle", "crashed"}) =>
      dom[t].items = pre.items

\* C4's case: a reload of a page that showed a completed and an active item.
C4_Witness ==
  /\ Done("load")
  /\ Len(pre.items) >= 2
  /\ \E i, j \in 1..Len(pre.items) : pre.items[i].strike /\ ~pre.items[j].strike

\* C5: a submit of text t on counter n and task sequence S leaves the sequence
\* S followed by the one record {id: n, task: t, completed: false}, and the
\* counter n + 1.
C5_SubmitAppends ==
  Done("submit") =>
    /\ JSONparse(getItem(storage, "todos")).kind = "array"
    /\ Todos(storage) =
         Todos(pre.storage) \o
           <<[id |-> Counter(pre.storage), task |-> last.value, completed |-> FALSE]>>
    /\ Counter(storage) = Counter(pre.storage) + 1

\* C5's case: a submit on a store that holds a completed and an active record.
C5_Witness ==
  /\ Done("submit")
  /\ Len(Todos(pre.storage)) = 2
  /\ Todos(pre.storage)[1].completed
  /\ ~Todos(pre.storage)[2].completed

\* C6: a toggle of an id flips the completed flag of the record with that id
\* and leaves every other record, and the order, as they were; a second toggle
\* of the same id right after restores the task sequence of before the first.
C6_ToggleFlipsOne ==
  Done("toggle") =>
    LET before == Todos(pre.storage)
        after  == Todos(storage)
    IN /\ Len(after) = Len(before)
       /\ \A i \in 1..Len(before) :
            /\ after[i].id = before[i].id
            /\ after[i].task = before[i].task
            /\ after[i].completed =
                 (IF before[i].id = last.id THEN ~before[i].completed
                  ELSE before[i].completed)
       /\ (pre.chain # <<>> => after = Todos(pre.chain[1]))

\* C6's case: the second of two toggles in a row of one id, beside other records.
C6_Witness ==
  /\ Done("toggle")
  /\ pre.chain # <<>>
  /\ Len(Todos(storage)) = 3
  /\ Todos(storage) # Todos(pre.storage)

\* C8, as claimed: after every storage write, the one between append's two
\* writes included, the counter is strictly greater than every id issued.
C8_CounterAboveIssuedAfterEveryWrite ==
  \A i \in 1..Len(issued) : issued[i] < Counter(storage)

\* C8, amended: once a handler has finished the counter is strictly greater
\* than every id issued; while append runs, after its first write, the counter
\* is not below any id issued and equals the newest.
C8_CounterAboveIssued ==
  LET counter == Counter(storage)
  IN /\ (\A t \in OneTab : Quiet(t)) =>
          \A i \in 1..Len(issued) : issued[i] < counter
     /\ \A i \in 1..Len(issued) : issued[i] <= counter
     /\ \A t \in OneTab :
          pc[t] \in {"incrementUniqueId_read", "incrementUniqueId_write"} =>
            issued[Len(issued)] = counter

\* C8's case: between the two writes of the append that creates the third
\* record, after an earlier record was deleted.
C8_Witness ==
  /\ pc[1] = "incrementUniqueId_write"
  /\ Len(issued) = 3
  /\ Len(Todos(storage)) = 2
  /\ Counter(storage) = 2

(***************************************************************************)
(* The claims on a corrupt store (SpecCorrupt).                            *)
(***************************************************************************)
\* C9: whatever `todos` holds at startup (nothing, or text that is no JSON
\* array), the startup block ends without an error: no page is left without
\* its listeners.
C9_StartupRecovers == \A t \in OneTab : pc[t] # "crashed"

(***************************************************************************)
(* The claims with two tabs (SpecTabs).                                    *)
(***************************************************************************)
\* The persisted task sequence holds a record with that id.
Holds_id(s, id) ==
  LET todos == Todos(s)
  IN \E i \in 1..Len(todos) : todos[i].id = id

C7_AbsentCase ==
  /\ Done("delete")
  /\ ~Holds_id(pre.storage, last.id)
  /\ Len(Todos(pre.storage)) = 1

\* C10: a toggle or a remove of an id the persisted sequence does not hold
\* raises no error and changes neither localStorage nor the tab's list.
C10_AbsentIdIsNoOp ==
  (/\ last.op \in {"toggle", "delete"}
   /\ pc[last.tab] = "idle"
   /\ ~Holds_id(pre.storage, last.id)) =>
    /\ ~last.threw
    /\ storage = pre.storage
    /\ dom[last.tab].items = pre.items

\* C10, amended: such a toggle or remove raises no error and leaves
\* localStorage as it was, but the tab's list changes: the toggle flips the
\* checked attribute and the strike class of the item clicked, the remove takes
\* the item out of the list.
C10_AbsentIdChangesViewOnly ==
  (/\ last.op \in {"toggle", "delete"}
   /\ pc[last.tab] = "idle"
   /\ ~Holds_id(pre.storage, last.id)) =>
    /\ ~last.threw
    /\ storage = pre.storage
    /\ LET items == dom[last.tab].items
       IN \E p \in 1..Len(pre.items) :
            /\ pre.items[p].dataId = NumberToString(last.id)
            /\ IF last.op = "delete"
               THEN items = Without(pre.items, p)
               ELSE /\ Len(items) = Len(pre.items)
                    /\ items[p].strike = ~pre.items[p].strike
                    /\ items[p].toggles = <<~pre.items[p].toggles[1]>>
                    /\ \A q \in 1..Len(items) : q # p => items[q] = pre.items[q]

\* C10's case: a tab has toggled an item whose record another tab had removed,
\* beside a record that is still stored.
C10_Witness ==
  /\ last.op = "toggle"
  /\ pc[last.tab] = "idle"
  /\ ~Holds_id(pre.storage, last.id)
  /\ Len(Todos(storage)) = 1
  /\ \E p \in 1..Len(dom[last.tab].items) :
       /\ dom[last.tab].items[p].dataId = NumberToString(last.id)
       /\ dom[last.tab].items[p].strike

(***************************************************************************)
(* The claims on what a handler leaves alone, one tab (Spec).              *)
(***************************************************************************)
\* C11: a key event on the submit field whose key is not Enter, or whose field
\* is empty, starts no submit and raises no error, and leaves localStorage
\* (task sequence and counter) and the list of the page as they were.
C11_IgnoredKeyIsNoOp ==
  (/\ last.op \in {"keydown", "submit"}
   /\ (last.id # EnterKey \/ last.value = "")) =>
    /\ last.op = "keydown"
    /\ ~last.threw
    /\ pc[last.tab] = "idle"
    /\ storage = pre.storage
    /\ dom[last.tab].items = pre.items

\* C11's case: Enter on an empty field, or another key on a filled one, while
\* two tasks are stored and shown.
C11_Witness ==
  /\ last.op = "keydown"
  /\ (last.id = EnterKey /\ last.value = "") \/ (last.id # EnterKey /\ last.value # "")
  /\ Len(Todos(storage)) = 2
  /\ Len(dom[last.tab].items) = 2

\* C12: a toggle and a delete leave the persisted counter as it was, so a
\* removal hands no id out again: the n-th record ever appended has id n - 1,
\* whatever was toggled or removed before it (with records 0 and 1, remove(0)
\* and then append gives id 2).
C12_CounterUntouched ==
  /\ last.op \in {"toggle", "delete"} =>
       getItem(storage, "uniqueId") = getItem(pre.storage, "uniqueId")
  /\ \A i \in 1..Len(issued) : issued[i] = i - 1
  /\ Done("submit") =>
       LET todos == Todos(storage)
       IN todos[Len(todos)].id = Counter(pre.storage)

\* C12's case: records 0 and 1, remove(0), then an append, which gets id 2.
C12_Witness ==
  /\ Done("submit")
  /\ issued = <<0, 1, 2>>
  /\ StoreIds(pre.storage) = <<NumberToString(1)>>
  /\ StoreIds(storage) = <<NumberToString(1), NumberToString(2)>>

\* The record with the largest id, the only one left, was removed before an
\* append.
C12_LastRemaining ==
  /\ Done("submit")
  /\ issued = <<0, 1>>
  /\ StoreIds(pre.storage) = <<>>
  /\ StoreIds(storage) = <<NumberToString(1)>>

(***************************************************************************)
(* The claim on the startup block, one tab (Spec).                         *)
(***************************************************************************)
\* C13: a page load writes to localStorage only when it finds the `todos` key
\* absent, and then leaves the counter 0 and the task sequence empty; a load
\* that finds the key present (the empty array included) leaves localStorage
\* as it was and shows each stored record once, so that reloads neither
\* duplicate a task nor reset the counter.
C13_LoadWritesOnlyWhenAbsent ==
  last.op = "load" =>
    LET found == getItem(pre.storage, "todos")
        t     == last.tab
    IN IF found.null
       THEN /\ pc[t] = "startup_setUniqueId" => storage = pre.storage
            /\ pc[t] = "startup_setTodos" =>
                 /\ getItem(storage, "todos") = found
                 /\ ~getItem(storage, "uniqueId").null
                 /\ Counter(storage) = 0
            /\ pc[t] = "idle" =>
                 /\ JSONparse(getItem(storage, "todos")).kind = "array"
                 /\ Todos(storage) = <<>>
                 /\ ~getItem(storage, "uniqueId").null
                 /\ Counter(storage) = 0
                 /\ dom[t].items = <<>>
       ELSE /\ storage = pre.storage
            /\ pc[t] \in {"startup_display", "idle"}
            /\ pc[t] = "idle" =>
                 /\ DomIds(dom[t].items) = StoreIds(storage)
                 /\ ~HasDuplicate(DomIds(dom[t].items))

\* C13's case: a reload after the only task was deleted finds the empty
\* array and keeps the counter at 1.
C13_Witness ==
  /\ Done("load")
  /\ JSONparse(getItem(pre.storage, "todos")).kind = "array"
  /\ Todos(pre.storage) = <<>>
  /\ Len(issued) = 1
  /\ Counter(storage) = Counter(pre.storage)
  /\ Counter(storage) > 0

\* A reload of a page with two tasks.
C13_ReloadTwoTasks ==
  /\ Done("load")
  /\ Len(Todos(pre.storage)) = 2
  /\ Len(dom[last.tab].items) = 2

(***************************************************************************)
(* The claims on the steps of a handler, one tab (Spec).                   *)
(***************************************************************************)
\* The positions in a handler's record of its writes and of its changes of the
\* list.
WritesAt(log) == {i \in 1..Len(log) : log[i].kind = "write"}

ListUpdatesAt(log) == {i \in 1..Len(log) : log[i] = Update("list")}

ReadsAt(log) == {i \in 1..Len(log) : log[i].kind = "read"}

\* C14, as claimed: in a submit, a toggle and a delete no change of the list
\* comes before a write of the handler to localStorage.
C14_WriteBeforeDomUpdate ==
  last.op \in {"submit", "toggle", "delete"} =>
    LET log == steps[last.tab]
    IN \A d \in ListUpdatesAt(log), w \in WritesAt(log) : w < d

\* C14, amended: every handler reads a key before it writes it. removeElement,
\* and toggleEventHandler of part_000, write before they change the list;
\* a submit changes the list before its first read of `todos` and before both
\* its writes, and toggleEventHandler of main.js changes the list between its
\* read and its write.
C14_HandlerOrder ==
  last.op \in {"submit", "toggle", "delete"} =>
    LET log == steps[last.tab]
        ended == pc[last.tab] = "idle" /\ ~last.threw
    IN /\ \A w \in WritesAt(log) :
            \E r \in ReadsAt(log) : r < w /\ log[r].key = log[w].key
       /\ ended => WritesAt(log) # {} /\ ListUpdatesAt(log) # {}
       /\ IF last.op = "delete" \/ (last.op = "toggle" /\ impl = "part_000")
          THEN \A d \in ListUpdatesAt(log), w \in WritesAt(log) : w < d
          ELSE /\ \A d \in ListUpdatesAt(log), w \in WritesAt(log) : d < w
               /\ \A d \in ListUpdatesAt(log) : \E r \in ReadsAt(log) : r < d
               /\ last.op = "submit" =>
                    \A d \in ListUpdatesAt(log), r \in ReadsAt(log) :
                      log[r].key = "todos" => d < r

\* C14's case: a submit, a toggle or a delete has run to its end beside
\* another stored record.
C14_Witness ==
  /\ \/ Done("submit")
     \/ Done("toggle")
     \/ Done("delete")
  /\ Len(steps[last.tab]) >= 3
  /\ Len(Todos(pre.storage)) = 2

\* The keys a handler has read, and those it has written, in order.
KeysRead(log) ==
  LET reads == SelectSeq(log, LAMBDA e : e.kind = "read")
  IN [i \in 1..Len(reads) |-> reads[i].key]

KeysWritten(log) ==
  LET writes == SelectSeq(log, LAMBDA e : e.kind = "write")
  IN [i \in 1..Len(writes) |-> writes[i].key]

\* C15, as claimed: a toggle and a delete read localStorage once and write it
\* once; a submit reads it once and writes it twice, `todos` and then
\* `uniqueId`.
C15_OneReadPerOperation ==
  (Done("submit") \/ Done("toggle") \/ Done("delete")) =>
    LET log == steps[last.tab]
    IN /\ Len(KeysRead(log)) = 1
       /\ KeysWritten(log) = IF last.op = "submit" THEN <<"todos", "uniqueId">>
                             ELSE <<"todos">>

\* C15, amended: a toggle and a delete read `todos` once and write it once; a
\* submit writes twice, `todos` and then `uniqueId`, and reads four times:
\* `uniqueId` in addNewListItem, `uniqueId` and `todos` in addToStore,
\* `uniqueId` in incrementUniqueId.
C15_ReadsAndWrites ==
  (Done("submit") \/ Done("toggle") \/ Done("delete")) =>
    LET log == steps[last.tab]
    IN IF last.op = "submit"
       THEN /\ KeysRead(log) = <<"uniqueId", "uniqueId", "todos", "uniqueId">>
            /\ KeysWritten(log) = <<"todos", "uniqueId">>
       ELSE /\ KeysRead(log) = <<"todos">>
            /\ KeysWritten(log) = <<"todos">>

\* C15's case: a submit beside a stored record has run to its end.
C15_Witness ==
  /\ Done("submit")
  /\ Len(Todos(pre.storage)) = 1
  /\ Cardinality(ReadsAt(steps[last.tab])) = 4
  /\ Cardinality(WritesAt(steps[last.tab])) = 2

(***************************************************************************)
(* The claims on two tabs whose submits interleave (SpecRace).             *)
(***************************************************************************)
\* Two records were issued one id: in the history of appends, in the stored
\* array, or in the list of a tab.
Collision ==
  \/ HasDuplicate(issued)
  \/ HasDuplicate(StoreIds(storage))
  \/ \E t \in TwoTabs : HasDuplicate(DomIds(dom[t].items))

\* C16: with two tabs on one localStorage and the steps of their submits
\* interleaved, ids collide, and they collide only once the second tab has
\* been opened: as long as one tab is closed no id is issued twice, neither in
\* the store nor in a list.
C16_CollisionNeedsTwoTabs ==
  Collision => \A t \in TwoTabs : pc[t] # "closed"

\* C16's case: both tabs have read the counter 0 at line 166 and each has
\* written a record with id 0 and shows an item with data-id 0; neither has
\* incremented the counter yet.
C16_Witness ==
  /\ pc[1] = "incrementUniqueId_read"
  /\ pc[2] = "incrementUniqueId_read"
  /\ local[1].n = local[2].n
  /\ issued = <<local[1].n, local[2].n>>
  /\ Counter(storage) = local[1].n
  /\ DomIds(dom[1].items) = <<NumberToString(local[1].n)>>
  /\ DomIds(dom[2].items) = <<NumberToString(local[2].n)>>

\* The stored array holds two records with one id, and a reload shows both.
C16_StoreCollision ==
  /\ HasDuplicate(StoreIds(storage))
  /\ \E t \in TwoTabs : pc[t] = "idle" /\ HasDuplicate(DomIds(dom[t].items))

(***************************************************************************)
(* The claims on two tabs whose handlers run one after another (SpecTabs). *)
(***************************************************************************)
\* C17: with two tabs whose handlers run one after another, the stored records
\* have pairwise distinct ids and no id is issued twice; a handler of either
\* tab drops no record it found in the store other than the one a delete
\* names, and a submit leaves its task in the store, also beside tasks the
\* tab does not show.
C17_AtomicHandlersKeepRecords ==
  LET before == Todos(pre.storage)
      after  == Todos(storage)
  IN /\ ~HasDuplicate(StoreIds(storage))
     /\ ~HasDuplicate(issued)
     /\ \A i \in 1..Len(before) :
          (last.op = "delete" /\ before[i].id = last.id)
          \/ \E j \in 1..Len(after) :
               after[j].id = before[i].id /\ after[j].task = before[i].task
     /\ Done("submit") =>
          /\ Len(after) = Len(before) + 1
          /\ after[Len(after)].task = last.value
          /\ after[Len(after)].id = issued[Len(issued)]

\* C17's case: the second tab, opened before the first tab's submit, has
\* submitted a task of its own: the store holds both tasks, the second tab's
\* list only its own.
C17_Witness ==
  /\ Done("submit")
  /\ last.tab = 2
  /\ Len(Todos(storage)) = 2
  /\ Len(dom[2].items) = 1
  /\ Len(dom[1].items) = 1
  /\ DomIds(dom[1].items) # DomIds(dom[2].items)

(***************************************************************************)
(* The claim on the two files (SpecCorrupt: every first visit, and every   *)
(* store the program then writes).                                         *)
(***************************************************************************)
\* What the handler last started leaves behind, as a function of the event and
\* of the store and the list it found, with no regard to the file the page
\* runs: localStorage, the list, and whether the script has ended in an error.
HandlerResult ==
  LET found  == JSONparse(getItem(pre.storage, "todos"))
      todos  == found.items
      n      == Counter(pre.storage)
      p      == querySelector(pre.items, last.id)
      same   == [storage |-> pre.storage, items |-> pre.items, crashed |-> FALSE]
  IN CASE last.op = "load" ->
            IF Falsy(getItem(pre.storage, "todos"))
            THEN [storage |-> [todos |-> Str(JSONstringify(<<>>)),
                               uniqueId |-> Str(NumberToString(0))],
                  items |-> <<>>, crashed |-> FALSE]
            ELSE IF found.kind = "array"
            THEN [storage |-> pre.storage, items |-> displayAll(<<>>, todos),
                  crashed |-> FALSE]
            ELSE [storage |-> pre.storage, items |-> <<>>, crashed |-> TRUE]
       [] last.op = "keydown" -> same
       [] last.op = "submit" ->
            [storage |-> [todos |-> Str(JSONstringify(pushTodo(todos, n, last.value))),
                          uniqueId |-> Str(NumberToString(n + 1))],
             items |-> appendNewListItem(pre.items, n, last.value),
             crashed |-> FALSE]
       [] last.op = "toggle" ->
            [storage |-> setItem(pre.storage, "todos",
                                 JSONstringify(toggleCompleted(todos, last.id))),
             items |-> toggleView(pre.items, p, 1, last.id, pre.items[p].toggles[1]),
             crashed |-> FALSE]
       [] last.op = "delete" ->
            [storage |-> setItem(pre.storage, "todos",
                                 JSONstringify(filterOut(todos, last.id))),
             items |-> removeChild(pre.items, p),
             crashed |-> FALSE]

\* C18: after every event (load, key event, toggle click, delete click) the
\* page of main.js and the page of part_000 have left the same localStorage
\* (task sequence and counter, as text) and the same list: what either leaves
\* is one function of the event and of what the handler found, whichever file
\* runs, and the script of neither ends in an error unless that of both does.
C18_SameResultInBothFiles ==
  \A t \in OneTab :
    (last.tab = t /\ pc[t] \in {"idle", "crashed"}) =>
      /\ last.threw <=> pc[t] = "crashed"
      /\ [storage |-> storage, items |-> dom[t].items,
          crashed |-> pc[t] = "crashed"] = HandlerResult
      /\ last.op \in {"load", "submit"} => dom[t].input = ""
      /\ last.op = "keydown" => dom[t].input = last.value

\* C18's case: main.js has handled a toggle (it updates the DOM before it
\* writes) after two submits (it increments with uniqueId++).
C18_Witness ==
  /\ impl = "main.js"
  /\ Done("toggle")
  /\ Len(Todos(storage)) = 2
  /\ Counter(storage) = 2
  /\ \E i \in 1..2 : dom[1].items[i].strike

\* The same events handled by part_000.
C18_WitnessPart ==
  /\ impl = "part_000"
  /\ Done("toggle")
  /\ Len(Todos(storage)) = 2
  /\ Counter(storage) = 2
  /\ \E i \in 1..2 : dom[1].items[i].strike

=============================================================================
